---- MODULE Spec2Model ----
(***************************************************************************)
(* Model of the event subscription and dispatch engine of go-marathon      *)
(* (subscription.go): the listener registry guarded by the client's        *)
(* reader/writer lock, the callback (Push) and SSE (Pull) transports, the  *)
(* event decoder/dispatcher and the goroutines they start.                 *)
(***************************************************************************)
EXTENDS Integers, Sequences, FiniteSets, TLC

(***************************************************************************)
(* Bounds of the model.                                                    *)
(***************************************************************************)
\* AddEventsListener calls made over a run (so also channels ever created).
MaxAdd == 2
\* Payloads handed to handleEvent over a run.
MaxEvents == 2
\* Members of the Marathon cluster.
NumMembers == 2
\* Backoff waits of the SSE goroutine that run out over a run.
MaxBackoffs == 2
\* Handshakes that fail within one call of connectToSSE.
MaxHandshakes == 3

(***************************************************************************)
(* Program constants that live outside subscription.go.                    *)
(***************************************************************************)
\* config.EventsTransport values.
EventsTransportCallback == 1
EventsTransportSSE == 2
\* Identity bits of the event catalog.
EventIDStatusUpdate == 2
EventIDDeploymentInfo == 4

defaultEventsURL == "/event"

\* Transport identifiers that are neither of the two.
OtherTransports == {0, 3, 12}
Transports == {EventsTransportCallback, EventsTransportSSE} \cup OtherTransports
EventIDs == {EventIDStatusUpdate, EventIDDeploymentInfo}
\* Filter masks a caller may pass.
Filters == {EventIDStatusUpdate, EventIDStatusUpdate + EventIDDeploymentInfo}

\* Channels made by AddEventsListener, named in creation order.
Chans == 1..MaxAdd
\* A channel the caller made itself; it is never in the registry.
ForeignChan == 0
\* Invocations of handleEvent, named in arrival order.
Handlers == 1..MaxEvents
Members == 1..NumMembers

VARIABLES
    eventsTransport,  \* r.config.EventsTransport
    callbackURL,      \* r.config.CallbackURL
    ipAddress,        \* r.ipAddress
    eventsHTTP,       \* r.eventsHTTP # nil
    subscribedToSSE,  \* r.subscribedToSSE
    listeners,        \* r.listeners: channel -> its context's filter
    readers,          \* holders of the read side of the client's RWMutex
    done,             \* per channel: times context.done was closed
    closed,           \* per channel: times the delivery channel was closed
    completion,       \* per channel: counter of context.completion
    fin,              \* per channel: state of the goroutine of lines 84-87
    handlers,         \* per handleEvent invocation: its position and locals
    inflight,         \* per channel and event id: delivery goroutines in select
    received,         \* per channel: event ids the consumer has received
    remote,           \* callback URLs in Marathon's subscription registry
    serving,          \* the goroutine of lines 140-144 serves the listener
    ssePc,            \* position of the goroutine of lines 174-186
    openStreams,      \* event streams opened by connectToSSE and not closed
    sseRetries,       \* the SSE goroutine's failed connects and waits so far
    sseCall,          \* the connectToSSE call under way: its failed handshakes,
                      \* and how many members were active when it began
    hostsDown,        \* r.hosts: the members marked down
    calls,            \* counts of the calls made to the outside
    nAdd,             \* AddEventsListener calls so far
    nextChan,         \* name of the next channel made
    nEvents,          \* payloads handed to handleEvent so far
    ret,              \* what the last AddEventsListener call returned
    panicMsg          \* the panic that ended the process, or "none"

vars == <<eventsTransport, callbackURL, ipAddress, eventsHTTP, subscribedToSSE,
          listeners, readers, done, closed, completion, fin, handlers,
          inflight, received, remote, serving, ssePc, openStreams, sseRetries,
          sseCall, hostsDown, calls, nAdd, nextChan, nEvents, ret, panicMsg>>

configVars == <<eventsTransport, callbackURL>>

(***************************************************************************)
(* Pure helpers.                                                           *)
(***************************************************************************)
RECURSIVE BitAnd(_, _)
\* Go's a & b on non-negative integers.
BitAnd(a, b) ==
    IF a = 0 \/ b = 0 THEN 0
    ELSE (a % 2) * (b % 2) + 2 * BitAnd(a \div 2, b \div 2)

Digits == <<"0", "1", "2", "3", "4", "5", "6", "7", "8", "9">>

RECURSIVE Itoa(_)
\* The %d verb of fmt on a non-negative integer.
Itoa(n) == IF n < 10 THEN Digits[n + 1] ELSE Itoa(n \div 10) \o Digits[(n % 10) + 1]

\* SubscriptionURL: the configured callback URL, else one built from the address.
SubscriptionURLOf(cb, ip) ==
    IF cb # "" THEN cb \o defaultEventsURL
    ELSE "http://" \o ip \o ":port" \o defaultEventsURL

SubscriptionURL == SubscriptionURLOf(callbackURL, ipAddress)

(***************************************************************************)
(* The event catalog and the wire payloads.                                *)
(***************************************************************************)
Tags == {"status_update_event", "deployment_info"}

\* A payload: whether it is empty, whether its envelope parses, its event-type
\* tag, and whether the whole of it fits the type the catalog gives for the tag.
Payloads ==
    {[empty |-> TRUE, envelope |-> FALSE, tag |-> "", fits |-> FALSE],
     [empty |-> FALSE, envelope |-> FALSE, tag |-> "", fits |-> FALSE]}
    \cup [empty : {FALSE}, envelope : {TRUE},
          tag : Tags \cup {"bogus_event"}, fits : BOOLEAN]

\* GetEvent: the catalog's decode target and identity for a tag, else an error.
GetEvent(tag) ==
    CASE tag = "status_update_event" -> [err |-> "nil", ID |-> EventIDStatusUpdate]
      [] tag = "deployment_info" -> [err |-> "nil", ID |-> EventIDDeploymentInfo]
      [] OTHER -> [err |-> "unknown_event", ID |-> 0]

\* Line 270: the error of an envelope that does not parse; it quotes the
\* content, and the decoder reports EOF for an empty one.
envelopeError(content) ==
    IF content.empty
    THEN "failed to decode the event type, content: , error: EOF"
    ELSE "failed to decode the event type"

\* As decodeEvent, without the check of lines 269-271.
decodeEventAnyEnvelope(content) ==
    LET event == GetEvent(content.tag) IN
    IF event.err # "nil"
    THEN [err |-> "unable to handle event", ID |-> 0]
    ELSE IF ~content.fits
         THEN [err |-> "failed to decode the event", ID |-> 0]
         ELSE [err |-> "nil", ID |-> event.ID]

\* As decodeEvent, without the check of lines 275-277.
decodeEventUnchecked(content) ==
    IF ~content.envelope
    THEN [err |-> envelopeError(content), ID |-> 0]
    ELSE IF ~content.fits
         THEN [err |-> "failed to decode the event", ID |-> 0]
         ELSE [err |-> "nil", ID |-> GetEvent(content.tag).ID]

\* handleEvent, lines 266-283: the three decoding steps and their error returns.
decodeEvent(content) ==
    IF ~content.envelope
    THEN [err |-> envelopeError(content), ID |-> 0]
    ELSE LET event == GetEvent(content.tag) IN
         IF event.err # "nil"
         THEN [err |-> "unable to handle event", ID |-> 0]
         ELSE IF ~content.fits
              THEN [err |-> "failed to decode the event", ID |-> 0]
              ELSE [err |-> "nil", ID |-> event.ID]

\* As wantsEvent, with | written for &.
wantsEventOr(id, filter) == id + filter - BitAnd(id, filter) # 0

\* handleEvent, line 291: does this listener want this event.
wantsEvent(id, filter) == BitAnd(id, filter) # 0

(***************************************************************************)
(* Transport setup. The operators work on a record of the client fields    *)
(* and outside state that setup touches, and return it with err added.     *)
(***************************************************************************)
SetupState ==
    [ipAddress |-> ipAddress, eventsHTTP |-> eventsHTTP, serving |-> serving,
     subscribedToSSE |-> subscribedToSSE, ssePc |-> ssePc, remote |-> remote,
     calls |-> calls, err |-> "nil", returned |-> FALSE]

Bump(s, what) == [s EXCEPT !.calls[what] = @ + 1]

ResolvedAddress == "10.0.0.1"

\* As bindEventsHTTP, without the guard of line 113.
bindEventsHTTPAgain(s, env) ==
    IF ~env.resolve
    THEN [Bump(s, "resolve") EXCEPT
            !.err = "Unable to get the ip address from the interface",
            !.returned = TRUE]
    ELSE LET s1 == [Bump(Bump(Bump(s, "resolve"), "handleFunc"), "listen")
                      EXCEPT !.ipAddress = ResolvedAddress, !.eventsHTTP = TRUE]
         IN  IF ~env.listen
             THEN [s1 EXCEPT !.err = "nil", !.returned = TRUE]
             ELSE [s1 EXCEPT !.serving = TRUE]

\* registerCallbackSubscription, lines 113-145. env.resolve and env.listen say
\* whether getInterfaceAddress and net.Listen succeed.
bindEventsHTTP(s, env) ==
    IF s.eventsHTTP THEN s
    ELSE IF ~env.resolve
         THEN [Bump(s, "resolve") EXCEPT
                 !.err = "Unable to get the ip address from the interface",
                 !.returned = TRUE]
         ELSE LET s1 == [Bump(Bump(Bump(s, "resolve"), "handleFunc"), "listen")
                           EXCEPT !.ipAddress = ResolvedAddress,
                                  !.eventsHTTP = TRUE]
              IN  IF ~env.listen
                  THEN [s1 EXCEPT !.err = "nil", !.returned = TRUE]
                  ELSE [s1 EXCEPT !.serving = TRUE]

\* As HasSubscription, never finding the callback.
HasSubscriptionNever(callback, registry) == FALSE

\* HasSubscription, lines 249-263, on the registry's answer.
HasSubscription(callback, registry) == callback \in registry

\* registerCallbackSubscription, lines 147-162. env.get and env.post say whether
\* the GET and the POST of the subscription API succeed.
registerCallback(s, env) ==
    LET callback == SubscriptionURLOf(callbackURL, s.ipAddress)
        s1 == Bump(s, "get")
    IN  IF ~env.get
        THEN [s1 EXCEPT !.err = "api get failed", !.returned = TRUE]
        ELSE IF HasSubscription(callback, s.remote)
             THEN [s1 EXCEPT !.returned = TRUE]
             ELSE LET s2 == Bump(s1, "post") IN
                  IF ~env.post
                  THEN [s2 EXCEPT !.err = "api post failed", !.returned = TRUE]
                  ELSE [s2 EXCEPT !.remote = @ \cup {callback},
                                  !.returned = TRUE]

\* registerCallbackSubscription, lines 112-163.
registerCallbackSubscription(s, env) ==
    LET s1 == bindEventsHTTP(s, env) IN
    IF s1.returned THEN s1 ELSE registerCallback(s1, env)

\* As registerSSESubscription, without the guard of lines 170-172.
registerSSESubscriptionAgain(s) ==
    [Bump(s, "sseLoops") EXCEPT
        !.ssePc = "connect", !.subscribedToSSE = TRUE, !.returned = TRUE]

\* registerSSESubscription, lines 169-190.
registerSSESubscription(s) ==
    IF s.subscribedToSSE THEN [s EXCEPT !.returned = TRUE]
    ELSE [Bump(s, "sseLoops") EXCEPT
            !.ssePc = "connect", !.subscribedToSSE = TRUE, !.returned = TRUE]

\* As registerSubscription, without the default case.
registerSubscriptionNoDefault(s, env) ==
    CASE eventsTransport = EventsTransportCallback ->
            registerCallbackSubscription(s, env)
      [] eventsTransport = EventsTransportSSE -> registerSSESubscription(s)
      [] OTHER -> [s EXCEPT !.returned = TRUE]

\* registerSubscription, lines 101-110.
registerSubscription(s, env) ==
    CASE eventsTransport = EventsTransportCallback ->
            registerCallbackSubscription(s, env)
      [] eventsTransport = EventsTransportSSE -> registerSSESubscription(s)
      [] OTHER ->
            [s EXCEPT !.err = "the events transport: " \o Itoa(eventsTransport)
                              \o " is not supported",
                      !.returned = TRUE]

Envs == [resolve : BOOLEAN, listen : BOOLEAN, get : BOOLEAN, post : BOOLEAN]

NoCalls == [resolve |-> 0, handleFunc |-> 0, listen |-> 0, get |-> 0, post |-> 0,
            delete |-> 0, sseLoops |-> 0]

\* connectToSSE, line 195: a call begins, with these members marked down.
NewCall(down) == [handshakes |-> 0, active |-> Cardinality(Members \ down)]

\* The SSE goroutine is not inside connectToSSE.
NoCall == [handshakes |-> 0, active |-> 0]

IdleHandler == [pc |-> "idle", ID |-> 0, todo |-> {}, err |-> "nil"]

Alive == panicMsg = "none"

Init ==
    /\ eventsTransport \in Transports
    /\ callbackURL \in IF eventsTransport = EventsTransportCallback
                      THEN {"", "http://cb"} ELSE {""}
    /\ ipAddress = ""
    /\ eventsHTTP = FALSE
    /\ subscribedToSSE = FALSE
    /\ listeners = <<>>
    /\ readers = 0
    /\ done = [c \in Chans |-> 0]
    /\ closed = [c \in Chans |-> 0]
    /\ completion = [c \in Chans |-> 0]
    /\ fin = [c \in Chans |-> "none"]
    /\ handlers = [h \in Handlers |-> IdleHandler]
    /\ inflight = [c \in Chans |-> [e \in EventIDs |-> 0]]
    /\ received = [c \in Chans |-> {}]
    /\ remote = {}
    /\ serving = FALSE
    /\ ssePc = "off"
    /\ openStreams = 0
    /\ sseRetries = [failed |-> 0, waited |-> 0]
    /\ sseCall = NoCall
    /\ hostsDown = {}
    /\ calls = NoCalls
    /\ nAdd = 0
    /\ nextChan = 1
    /\ nEvents = 0
    /\ ret = [op |-> "none", err |-> "nil", ch |-> ForeignChan]
    /\ panicMsg = "none"

(***************************************************************************)
(* The public operations. Each runs under r.Lock(), so it is one step that *)
(* needs the read side of the lock to be free.                             *)
(***************************************************************************)
\* AddEventsListener, lines 49-66.
AddEventsListener(filter, env) ==
    /\ Alive
    /\ nAdd < MaxAdd
    /\ readers = 0
    /\ LET s == registerSubscription(SetupState, env) IN
       /\ ipAddress' = s.ipAddress
       /\ eventsHTTP' = s.eventsHTTP
       /\ serving' = s.serving
       /\ subscribedToSSE' = s.subscribedToSSE
       /\ ssePc' = s.ssePc
       /\ sseCall' = IF s.ssePc # ssePc THEN NewCall(hostsDown) ELSE sseCall
       /\ remote' = s.remote
       /\ calls' = s.calls
       /\ IF s.err # "nil"
          THEN /\ ret' = [op |-> "AddEventsListener", err |-> s.err, ch |-> ForeignChan]
               /\ UNCHANGED <<listeners, nextChan>>
          ELSE /\ listeners' = (nextChan :> filter) @@ listeners
               /\ nextChan' = nextChan + 1
               /\ ret' = [op |-> "AddEventsListener", err |-> "nil", ch |-> nextChan]
    /\ nAdd' = nAdd + 1
    /\ UNCHANGED <<configVars, openStreams, sseRetries, readers, done, closed,
                   completion, fin, handlers, inflight, received, hostsDown,
                   nEvents, panicMsg>>

Without(f, k) == [x \in DOMAIN f \ {k} |-> f[x]]

\* As foundListener, for any channel AddEventsListener ever returned.
foundListenerEver(channel) == channel \in Chans /\ channel < nextChan

\* RemoveEventsListener, line 74: is the channel in the registry.
foundListener(channel) == channel \in DOMAIN listeners

\* As mustUnsubscribe, for a RemoveEventsListener without lines 79-81.
mustUnsubscribeNever(left) == FALSE

\* As mustUnsubscribe, without the test of len(r.listeners).
mustUnsubscribeAlways(left) == eventsTransport = EventsTransportCallback

\* RemoveEventsListener, lines 79-81: must the callback be unsubscribed.
mustUnsubscribe(left) ==
    eventsTransport = EventsTransportCallback /\ Cardinality(DOMAIN left) = 0

\* RemoveEventsListener, line 74 with found false: nothing is touched.
keepListener ==
    [done |-> done, panicMsg |-> panicMsg, listeners |-> listeners,
     calls |-> calls, remote |-> remote, fin |-> fin]

\* RemoveEventsListener, lines 75-87, for a channel found. deleteOk says whether
\* the DELETE of the subscription API succeeds; line 80 drops its error.
dropListener(channel, deleteOk) ==
    LET left == Without(listeners, channel)
        unsubscribe == mustUnsubscribe(left)
    IN  [done |-> [done EXCEPT ![channel] = @ + 1],
         panicMsg |-> IF done[channel] > 0 THEN "close of closed channel"
                      ELSE panicMsg,
         listeners |-> left,
         calls |-> IF unsubscribe THEN [calls EXCEPT !.delete = @ + 1] ELSE calls,
         remote |-> IF unsubscribe /\ deleteOk THEN remote \ {SubscriptionURL}
                    ELSE remote,
         fin |-> [fin EXCEPT ![channel] = "wait"]]

\* As detachListener, giving up the detach when the DELETE fails.
detachListenerOrGiveUp(channel, deleteOk) ==
    IF ~foundListener(channel) THEN keepListener
    ELSE IF mustUnsubscribe(Without(listeners, channel)) /\ ~deleteOk
         THEN [keepListener EXCEPT !.calls.delete = @ + 1]
         ELSE dropListener(channel, deleteOk)

\* RemoveEventsListener, lines 74-88: what the call leaves behind.
detachListener(channel, deleteOk) ==
    IF foundListener(channel) THEN dropListener(channel, deleteOk)
    ELSE keepListener

\* RemoveEventsListener, lines 70-89.
RemoveEventsListener(channel, deleteOk) ==
    /\ Alive
    /\ readers = 0
    /\ LET s == detachListener(channel, deleteOk) IN
       /\ done' = s.done
       /\ panicMsg' = s.panicMsg
       /\ listeners' = s.listeners
       /\ calls' = s.calls
       /\ remote' = s.remote
       /\ fin' = s.fin
    /\ UNCHANGED <<configVars, openStreams, sseRetries, sseCall, ret,
                   ipAddress, eventsHTTP, subscribedToSSE, readers, closed,
                   completion, handlers, inflight, received, serving, ssePc,
                   hostsDown, nAdd, nextChan, nEvents>>

(***************************************************************************)
(* handleEvent and the two places that call it.                            *)
(***************************************************************************)
\* Handler h is the next invocation to start.
NextHandler(h) == h = nEvents + 1 /\ handlers[h].pc = "idle"

\* handleEvent, lines 265-289: decode, and with a decoded event take the read
\* side of the lock and start the walk over r.listeners.
handleEventStart(h, content) ==
    LET event == decodeEvent(content) IN
    /\ nEvents' = nEvents + 1
    /\ IF event.err # "nil"
       THEN /\ handlers' = [handlers EXCEPT ![h] =
                              [pc |-> "returned", ID |-> 0, todo |-> {},
                               err |-> event.err]]
            /\ UNCHANGED readers
       ELSE /\ handlers' = [handlers EXCEPT ![h] =
                              [pc |-> "dispatch", ID |-> event.ID,
                               todo |-> DOMAIN listeners, err |-> "nil"]]
            /\ readers' = readers + 1

\* handleCallbackEvent, lines 307-319, for a request whose body was read.
handleCallbackEvent(h, body) ==
    /\ Alive
    /\ serving
    /\ NextHandler(h)
    /\ handleEventStart(h, body)
    /\ UNCHANGED <<configVars, openStreams, sseRetries, sseCall, ipAddress,
                   eventsHTTP, subscribedToSSE, listeners, done, closed,
                   completion, fin, inflight, received, remote, serving, ssePc,
                   hostsDown, calls, nAdd, nextChan, ret, panicMsg>>

\* handleCallbackEvent, lines 308-313: reading the body failed, the request is
\* dropped without calling handleEvent.
handleCallbackReadError(h) ==
    /\ Alive
    /\ serving
    /\ NextHandler(h)
    /\ nEvents' = nEvents + 1
    /\ handlers' = [handlers EXCEPT ![h] =
                      [pc |-> "dropped", ID |-> 0, todo |-> {}, err |-> "nil"]]
    /\ UNCHANGED <<configVars, openStreams, sseRetries, sseCall, ipAddress,
                   eventsHTTP, subscribedToSSE, listeners, readers, done,
                   closed, completion, fin, inflight, received, remote,
                   serving, ssePc, hostsDown, calls, nAdd, nextChan, ret,
                   panicMsg>>

\* As SSEHandling, for a loop that would start handleEvent in a goroutine of
\* its own and read on.
SSEHandlingNever == FALSE

\* The SSE goroutine is inside the case of lines 221-224.
SSEHandling == \E h \in Handlers : handlers[h].pc \in {"dispatch", "returned"}

\* As afterItem, for a loop that returns the error of handleEvent.
afterItemReturnError(err) == IF err # "nil" THEN "failed" ELSE "listen"

\* listenToSSE, lines 222-224: where the SSE goroutine is once handleEvent has
\* returned err; the error is logged and the select is entered again.
afterItem(err) == "listen"

\* listenToSSE, lines 221-224: an item of stream.Events is handled.
listenToSSEEvent(h, data) ==
    /\ Alive
    /\ ssePc = "listen"
    /\ ~SSEHandling
    /\ NextHandler(h)
    /\ handleEventStart(h, data)
    /\ ssePc' = afterItem(decodeEvent(data).err)
    /\ UNCHANGED <<configVars, openStreams, sseRetries, sseCall, ipAddress,
                   eventsHTTP, subscribedToSSE, listeners, done, closed,
                   completion, fin, inflight, received, remote, serving,
                   hostsDown, calls, nAdd, nextChan, ret, panicMsg>>

\* handleEvent, lines 289-302: one turn of the loop over r.listeners, for the
\* listener of channel ch.
handleEventDispatch(h, ch) ==
    /\ Alive
    /\ handlers[h].pc = "dispatch"
    /\ ch \in handlers[h].todo
    /\ handlers' = [handlers EXCEPT ![h].todo = @ \ {ch}]
    /\ IF wantsEvent(handlers[h].ID, listeners[ch])
       THEN /\ completion' = [completion EXCEPT ![ch] = @ + 1]
            /\ inflight' = [inflight EXCEPT ![ch][handlers[h].ID] = @ + 1]
       ELSE UNCHANGED <<completion, inflight>>
    /\ UNCHANGED <<configVars, openStreams, sseRetries, sseCall, ipAddress,
                   eventsHTTP, subscribedToSSE, listeners, readers, done,
                   closed, fin, received, remote, serving, ssePc, hostsDown,
                   calls, nAdd, nextChan, nEvents, ret, panicMsg>>

\* As loopOver, for a loop that sends on the channel itself: it is over only
\* when the listeners have received what it started.
loopOverAfterReceive(h) ==
    /\ handlers[h].todo = {}
    /\ \A ch \in Chans, e \in EventIDs : inflight[ch][e] = 0

\* handleEvent, lines 289-302: the loop has visited every listener; each turn
\* only starts a goroutine (line 293) and waits for nothing.
loopOver(h) == handlers[h].todo = {}

\* handleEvent, lines 286 and 304: the loop is over, the read lock is released.
handleEventReturn(h) ==
    /\ Alive
    /\ handlers[h].pc = "dispatch"
    /\ loopOver(h)
    /\ handlers' = [handlers EXCEPT ![h] =
                      [pc |-> "returned", ID |-> 0, todo |-> {}, err |-> "nil"]]
    /\ readers' = readers - 1
    /\ UNCHANGED <<configVars, openStreams, sseRetries, sseCall, ipAddress,
                   eventsHTTP, subscribedToSSE, listeners, done, closed,
                   completion, fin, inflight, received, remote, serving, ssePc,
                   hostsDown, calls, nAdd, nextChan, nEvents, ret, panicMsg>>

\* The caller of handleEvent goes on: lines 315-319 log the error and the HTTP
\* request completes; lines 222-224 log it and the stream is read again.
handleEventCallerDone(h) ==
    /\ Alive
    /\ handlers[h].pc \in {"returned", "dropped"}
    /\ handlers' = [handlers EXCEPT ![h] =
                      [pc |-> "done", ID |-> 0, todo |-> {}, err |-> "nil"]]
    /\ UNCHANGED <<configVars, openStreams, sseRetries, sseCall, ipAddress,
                   eventsHTTP, subscribedToSSE, listeners, readers, done,
                   closed, completion, fin, inflight, received, remote,
                   serving, ssePc, hostsDown, calls, nAdd, nextChan, nEvents,
                   ret, panicMsg>>

(***************************************************************************)
(* The delivery goroutines of lines 293-300.                               *)
(***************************************************************************)
\* Which cases of the select of lines 295-299 may be taken.
canSend(ch) == TRUE

\* As canCancel, for a select without the case of line 297.
canCancelNever(ch) == FALSE

canCancel(ch) == done[ch] > 0

\* Lines 294 and 296: the consumer receives the event and the goroutine ends
\* with completion.Done(); a send on a closed channel panics.
deliverySend(ch, e) ==
    /\ Alive
    /\ inflight[ch][e] > 0
    /\ canSend(ch)
    /\ IF closed[ch] > 0
       THEN /\ panicMsg' = "send on closed channel"
            /\ UNCHANGED <<inflight, completion, received>>
       ELSE /\ inflight' = [inflight EXCEPT ![ch][e] = @ - 1]
            /\ completion' = [completion EXCEPT ![ch] = @ - 1]
            /\ received' = [received EXCEPT ![ch] = @ \cup {e}]
            /\ UNCHANGED panicMsg
    /\ UNCHANGED <<configVars, openStreams, sseRetries, sseCall, ipAddress,
                   eventsHTTP, subscribedToSSE, listeners, readers, done,
                   closed, fin, handlers, remote, serving, ssePc, hostsDown,
                   calls, nAdd, nextChan, nEvents, ret>>

\* Lines 294 and 297: the done signal is observed and the goroutine ends with
\* completion.Done().
deliveryCancel(ch, e) ==
    /\ Alive
    /\ inflight[ch][e] > 0
    /\ canCancel(ch)
    /\ inflight' = [inflight EXCEPT ![ch][e] = @ - 1]
    /\ completion' = [completion EXCEPT ![ch] = @ - 1]
    /\ UNCHANGED <<configVars, openStreams, sseRetries, sseCall, ipAddress,
                   eventsHTTP, subscribedToSSE, listeners, readers, done,
                   closed, fin, handlers, received, remote, serving, ssePc,
                   hostsDown, calls, nAdd, nextChan, nEvents, ret, panicMsg>>

(***************************************************************************)
(* The goroutine of lines 84-87.                                           *)
(***************************************************************************)
\* As waitReturns, without the wait.
waitReturnsAtOnce(ch) == TRUE

\* Line 85: completion.Wait() returns once the counter is zero.
waitReturns(ch) == completion[ch] = 0

\* Lines 85-86: completion.Wait() returns and the channel is closed.
finalizerClose(ch) ==
    /\ Alive
    /\ fin[ch] = "wait"
    /\ waitReturns(ch)
    /\ fin' = [fin EXCEPT ![ch] = "closed"]
    /\ closed' = [closed EXCEPT ![ch] = @ + 1]
    /\ panicMsg' = IF closed[ch] > 0 THEN "close of closed channel" ELSE panicMsg
    /\ UNCHANGED <<configVars, openStreams, sseRetries, sseCall, ipAddress,
                   eventsHTTP, subscribedToSSE, listeners, readers, done,
                   completion, handlers, inflight, received, remote, serving,
                   ssePc, hostsDown, calls, nAdd, nextChan, nEvents, ret>>

(***************************************************************************)
(* The SSE goroutine of lines 174-186.                                     *)
(***************************************************************************)
\* What buildAPIRequest may answer: a request against an active member, the
\* error of a request that cannot be built, or another error.
buildAPIRequest(down) ==
    {[err |-> "nil", member |-> m] : m \in Members \ down}
    \cup {[err |-> "newRequestError", member |-> 0],
          [err |-> "error", member |-> 0]}

\* As handshakeFailed, with the mark of the failed member replacing the marks
\* made before it.
handshakeFailedReset(down, member) == {member}

\* As handshakeFailed, without line 210.
handshakeFailedUnmarked(down, member) == down

\* connectToSSE, lines 208-212: the members marked down once the handshake
\* with member has failed.
handshakeFailed(down, member) == down \cup {member}

\* As connectFailed, for a loop without line 179.
connectFailedNoWait == "connect"

\* Lines 177-180: where the goroutine is after connectToSSE returned an error.
connectFailed == "backoff"

\* connectToSSE, lines 196-215: one turn of its loop. subscribeOk says whether
\* eventsource.SubscribeWith succeeds.
connectToSSE(req, subscribeOk) ==
    /\ Alive
    /\ ssePc = "connect"
    /\ req \in buildAPIRequest(hostsDown)
    /\ CASE req.err = "newRequestError" ->
              /\ panicMsg' = "Requests for SSE subscriptions should never fail to be created"
              /\ UNCHANGED <<ssePc, hostsDown, sseRetries, sseCall, openStreams>>
         [] req.err = "error" ->
              /\ ssePc' = connectFailed
              /\ sseRetries' = [sseRetries EXCEPT !.failed = @ + 1]
              /\ sseCall' = NoCall
              /\ UNCHANGED <<panicMsg, hostsDown, openStreams>>
         [] OTHER ->
              IF subscribeOk
              THEN /\ ssePc' = "listen"
                   /\ openStreams' = openStreams + 1
                   /\ sseCall' = NoCall
                   /\ UNCHANGED <<panicMsg, hostsDown, sseRetries>>
              ELSE /\ sseCall.handshakes < MaxHandshakes
                   /\ hostsDown' = handshakeFailed(hostsDown, req.member)
                   /\ sseCall' = [sseCall EXCEPT !.handshakes = @ + 1]
                   /\ UNCHANGED <<panicMsg, ssePc, sseRetries, openStreams>>
    /\ UNCHANGED <<configVars, ipAddress, eventsHTTP, subscribedToSSE,
                   listeners, readers, done, closed, completion, fin, handlers,
                   inflight, received, remote, serving, calls, nAdd, nextChan,
                   nEvents, ret>>

\* Line 179: the five seconds have passed.
sseBackoffOver ==
    /\ Alive
    /\ ssePc = "backoff"
    /\ sseRetries.waited < MaxBackoffs
    /\ ssePc' = "connect"
    /\ sseRetries' = [sseRetries EXCEPT !.waited = @ + 1]
    /\ sseCall' = NewCall(hostsDown)
    /\ UNCHANGED <<configVars, openStreams, ipAddress, eventsHTTP,
                   subscribedToSSE, listeners, readers, done, closed,
                   completion, fin, handlers, inflight, received, remote,
                   serving, hostsDown, calls, nAdd, nextChan, nEvents, ret,
                   panicMsg>>

\* listenToSSE, lines 225-226, and lines 183-184: the stream reports an error,
\* is closed, and the loop connects again.
listenToSSEError ==
    /\ Alive
    /\ ssePc = "listen"
    /\ ~SSEHandling
    /\ ssePc' = "connect"
    /\ openStreams' = openStreams - 1
    /\ sseCall' = NewCall(hostsDown)
    /\ UNCHANGED <<configVars, sseRetries, ipAddress, eventsHTTP,
                   subscribedToSSE, listeners, readers, done, closed,
                   completion, fin, handlers, inflight, received, remote,
                   serving, hostsDown, calls, nAdd, nextChan, nEvents, ret,
                   panicMsg>>

\* The cluster's health check finds a member marked down to be up again.
memberRevalidated(m) ==
    /\ Alive
    /\ m \in hostsDown
    /\ hostsDown' = hostsDown \ {m}
    /\ UNCHANGED <<configVars, openStreams, sseRetries, sseCall, ipAddress,
                   eventsHTTP, subscribedToSSE, listeners, readers, done,
                   closed, completion, fin, handlers, inflight, received,
                   remote, serving, ssePc, calls, nAdd, nextChan, nEvents, ret,
                   panicMsg>>

\* The public operations, called with the outside answering as envs and
\* deleteOks allow.
CallerNext(envs, deleteOks) ==
    \/ \E filter \in Filters, env \in envs : AddEventsListener(filter, env)
    \/ \E channel \in Chans \cup {ForeignChan}, deleteOk \in deleteOks :
           /\ channel < nextChan
           /\ RemoveEventsListener(channel, deleteOk)

\* The steps of the HTTP handlers and of the goroutines the client starts.
GoroutineNext ==
    \/ \E h \in Handlers, body \in Payloads : handleCallbackEvent(h, body)
    \/ \E h \in Handlers : handleCallbackReadError(h)
    \/ \E h \in Handlers, data \in Payloads : listenToSSEEvent(h, data)
    \/ \E h \in Handlers, ch \in Chans : handleEventDispatch(h, ch)
    \/ \E h \in Handlers : handleEventReturn(h)
    \/ \E h \in Handlers : handleEventCallerDone(h)
    \/ \E ch \in Chans, e \in EventIDs : deliverySend(ch, e)
    \/ \E ch \in Chans, e \in EventIDs : deliveryCancel(ch, e)
    \/ \E ch \in Chans : finalizerClose(ch)
    \/ \E req \in buildAPIRequest(hostsDown), subscribeOk \in BOOLEAN :
           connectToSSE(req, subscribeOk)
    \/ sseBackoffOver
    \/ listenToSSEError

\* The steps of the client and of what it talks to, but for the cluster's
\* health check.
ClientNext ==
    \/ CallerNext(Envs, BOOLEAN)
    \/ GoroutineNext

Next ==
    \/ ClientNext
    \/ \E m \in Members : memberRevalidated(m)

Spec == Init /\ [][Next]_vars

\* The Go scheduler runs every goroutine that can take a step: a delivery
\* goroutine whose done signal is closed, and the goroutine of lines 84-87 once
\* Wait can return. Nothing makes a consumer receive.
Fairness ==
    /\ \A ch \in Chans, e \in EventIDs : WF_vars(deliveryCancel(ch, e))
    /\ \A ch \in Chans : WF_vars(finalizerClose(ch))

LiveSpec == Init /\ [][Next]_vars /\ Fairness

\* The goroutine that runs handleEvent takes its next step when it can: the
\* turns of the loop over r.listeners and the return. Nothing makes a consumer
\* receive.
DispatchFairness ==
    \A h \in Handlers :
        /\ WF_vars(\E ch \in Chans : handleEventDispatch(h, ch))
        /\ WF_vars(handleEventReturn(h))

DispatchLiveSpec == Init /\ [][Next]_vars /\ DispatchFairness

\* The SSE goroutine takes the next turn of connectToSSE's loop when it can.
ConnectFairness ==
    WF_vars(\E req \in buildAPIRequest(hostsDown), subscribeOk \in BOOLEAN :
                connectToSSE(req, subscribeOk))

\* Runs in which no member marked down is found to be up again.
ConnectSpec == Init /\ [][ClientNext]_vars /\ ConnectFairness

\* The outside answers every call of the transport setup with success.
OkEnv == [resolve |-> TRUE, listen |-> TRUE, get |-> TRUE, post |-> TRUE]

AllOkNext ==
    \/ CallerNext({OkEnv}, {TRUE})
    \/ GoroutineNext
    \/ \E m \in Members : memberRevalidated(m)

\* Runs in which the bind and every call to Marathon's subscription API
\* succeed.
AllOkSpec == Init /\ [][AllOkNext]_vars

(***************************************************************************)
(* Properties.                                                             *)
(***************************************************************************)
\* Bit k of n.
Bit(n, k) == (n \div (2 ^ k)) % 2

\* The two masks share a set bit.
Intersects(f, i) == \E k \in 0..3 : Bit(f, k) = 1 /\ Bit(i, k) = 1

\* Delivery goroutines of channel ch.
Deliveries(ch) ==
    inflight[ch][EventIDStatusUpdate] + inflight[ch][EventIDDeploymentInfo]

\* Handler h takes the turn of its loop for channel ch in this step.
DispatchStep(h, ch) ==
    /\ handlers[h].pc = "dispatch"
    /\ ch \in handlers[h].todo
    /\ ch \notin handlers'[h].todo

\* C1: when handleEvent dispatches an event of identity i while a subscriber
\* with filter f is in the registry, a delivery to that subscriber's channel is
\* started if and only if f and i share a bit; so whatever a subscriber has
\* pending or has received is an event its filter shares a bit with.
C1_FilterDecidesDelivery ==
    /\ \A f \in 0..15, i \in {1, 2, 4, 8} : wantsEvent(i, f) <=> Intersects(f, i)
    /\ [][/\ \A h \in Handlers, ch \in Chans :
            DispatchStep(h, ch) =>
                LET i == handlers[h].ID
                    f == listeners[ch]
                IN  IF Intersects(f, i)
                    THEN /\ inflight'[ch] = [inflight[ch] EXCEPT ![i] = @ + 1]
                         /\ completion'[ch] = completion[ch] + 1
                    ELSE /\ inflight'[ch] = inflight[ch]
                         /\ completion'[ch] = completion[ch]
       /\ \A ch \in DOMAIN listeners', e \in EventIDs :
            (inflight'[ch][e] > 0 \/ e \in received'[ch])
                => Intersects(listeners'[ch], e)]_vars

\* Two subscribers with filters {STATUS_UPDATE} and {STATUS_UPDATE | DEPLOYMENT}
\* are attached, one event, of identity DEPLOYMENT, has been handled, and only
\* the second subscriber's channel has received it.
C1_Witness ==
    /\ DOMAIN listeners = {1, 2}
    /\ listeners[1] = EventIDStatusUpdate
    /\ listeners[2] = EventIDStatusUpdate + EventIDDeploymentInfo
    /\ nEvents = 1
    /\ handlers[1].pc = "done"
    /\ received[2] = {EventIDDeploymentInfo}
    /\ received[1] = {}
    /\ Deliveries(1) = 0

\* C2: a delivery channel is never closed while a delivery goroutine for it is
\* in flight, the in-flight counter counts exactly those goroutines, no
\* goroutine sends on a closed channel, and once RemoveEventsListener has
\* removed a subscriber no new delivery is started for it.
C2_NoCloseWhileInFlight ==
    /\ [](\A ch \in Chans :
            /\ completion[ch] = Deliveries(ch)
            /\ closed[ch] > 0 => completion[ch] = 0
            /\ fin[ch] = "closed" => completion[ch] = 0)
    /\ [](panicMsg # "send on closed channel")
    /\ [][\A ch \in Chans :
            done[ch] > 0 => /\ completion'[ch] <= completion[ch]
                            /\ Deliveries(ch)' <= Deliveries(ch)]_vars

\* A subscriber was removed while two deliveries to it were in flight; its
\* channel is still open.
C2_Witness ==
    \E ch \in Chans :
        /\ done[ch] = 1
        /\ fin[ch] = "wait"
        /\ completion[ch] = 2
        /\ closed[ch] = 0

\* C3: however many AddEventsListener calls are made, the HTTP handler is
\* installed and the listener bound once, the SSE goroutine is started once,
\* and the callback URL is never posted while the registry already has it.
C3_SetupOnce ==
    /\ [](/\ calls.listen <= 1
          /\ calls.handleFunc <= 1
          /\ calls.sseLoops <= 1
          /\ (nextChan > 1 /\ eventsTransport = EventsTransportCallback)
                => calls.listen = 1 /\ calls.handleFunc = 1
          /\ (nextChan > 1 /\ eventsTransport = EventsTransportSSE)
                => calls.sseLoops = 1)
    /\ [][calls'.post > calls.post
            => /\ calls'.post = calls.post + 1
               /\ SubscriptionURL' \notin remote
               /\ remote' = remote \cup {SubscriptionURL'}
                  \/ remote' = remote]_vars

\* Two AddEventsListener calls have both returned a channel under the callback
\* transport, after one bind and one registration.
C3_Witness ==
    /\ eventsTransport = EventsTransportCallback
    /\ nAdd = 2
    /\ DOMAIN listeners = {1, 2}
    /\ calls.listen = 1
    /\ calls.post = 1
    /\ serving

\* A step of the transport setup that this AddEventsListener call performs fails.
SetupFails(env) ==
    /\ eventsTransport = EventsTransportCallback
    /\ LET bound == eventsHTTP \/ (env.resolve /\ env.listen)
           url == SubscriptionURLOf(callbackURL,
                      IF eventsHTTP THEN ipAddress ELSE ResolvedAddress)
       IN  \/ ~eventsHTTP /\ ~env.resolve
           \/ ~eventsHTTP /\ env.resolve /\ ~env.listen
           \/ bound /\ ~env.get
           \/ bound /\ env.get /\ url \notin remote /\ ~env.post

\* C4: when a step of the transport setup fails (resolving the address, binding
\* the listener, querying the registry, registering the URL), AddEventsListener
\* returns an error and the listener registry is as it was.
C4_SetupFailureIsReturned ==
    [][\A filter \in Filters, env \in Envs :
          (AddEventsListener(filter, env) /\ SetupFails(env))
              => ret'.err # "nil" /\ listeners' = listeners]_vars

\* C5: a step issues one DELETE for the callback URL when, under the callback
\* transport, it takes the last subscriber out of the registry, and none
\* otherwise.
C5_UnsubscribeOnLastDetach ==
    [][calls'.delete = calls.delete +
          (IF /\ eventsTransport = EventsTransportCallback
              /\ DOMAIN listeners # {}
              /\ DOMAIN listeners' = {}
           THEN 1 ELSE 0)]_vars

\* Two subscribers were attached and both were removed under the callback
\* transport, with one DELETE in all.
C5_Witness ==
    /\ eventsTransport = EventsTransportCallback
    /\ nextChan = 3
    /\ fin[1] # "none"
    /\ fin[2] # "none"
    /\ calls.delete = 1

\* A payload is handed to handleEvent by either transport in this step.
HandleStep(h, content) ==
    handleCallbackEvent(h, content) \/ listenToSSEEvent(h, content)

\* C6: a payload whose tag is not in the catalog makes handleEvent return the
\* error of the catalog lookup, starts no delivery and leaves everything but the
\* handler's own record as it was, so that the next payload is handled as usual;
\* no handler that has returned holds the read lock.
C6_UnknownEventDropped ==
    /\ [][\A h \in Handlers, content \in Payloads :
            (content.envelope /\ content.tag \notin Tags /\ HandleStep(h, content))
                => /\ handlers'[h] = [pc |-> "returned", ID |-> 0, todo |-> {},
                                      err |-> "unable to handle event"]
                   /\ UNCHANGED <<listeners, readers, done, closed, completion,
                                  fin, inflight, received, remote, serving, ssePc,
                                  hostsDown, calls, panicMsg>>]_vars
    /\ [](readers = Cardinality({h \in Handlers : handlers[h].pc = "dispatch"}))

\* The first payload had an unknown tag and its handler has returned the error;
\* the payload after it was dispatched and a subscriber has received it.
C6_Witness ==
    /\ handlers[1].pc = "returned"
    /\ handlers[1].err = "unable to handle event"
    /\ handlers[2].pc = "done"
    /\ \E ch \in Chans : received[ch] # {}

\* C7: once RemoveEventsListener has detached a subscriber, its delivery
\* channel is closed in the end, whether or not the consumer receives again,
\* unless the process has ended by then with the panic of line 201.
C7_EventuallyClosed ==
    \A ch \in Chans : (done[ch] > 0) ~> (closed[ch] > 0 \/ ~Alive)

\* RemoveEventsListener has returned while a delivery to the subscriber is
\* still blocked on a consumer that has received nothing.
C7_Witness ==
    \E ch \in Chans, e \in EventIDs :
        /\ done[ch] = 1
        /\ fin[ch] = "wait"
        /\ inflight[ch][e] > 0
        /\ received[ch] = {}
        /\ listeners = <<>>

\* C8: the done signal and the delivery channel of a subscriber are each closed
\* at most once, and a RemoveEventsListener call for a channel that is not in
\* the registry changes nothing.
C8_ClosedAtMostOnce ==
    /\ [](\A ch \in Chans :
            /\ done[ch] <= 1
            /\ closed[ch] <= 1
            /\ fin[ch] # "none" <=> done[ch] = 1
            /\ fin[ch] = "closed" <=> closed[ch] = 1)
    /\ [](panicMsg # "close of closed channel")
    /\ [][\A ch \in Chans \cup {ForeignChan}, deleteOk \in BOOLEAN :
            (ch \notin DOMAIN listeners /\ RemoveEventsListener(ch, deleteOk))
                => UNCHANGED vars]_vars

\* A subscriber was detached and its channel closed, and RemoveEventsListener
\* can be called for it again.
C8_Witness ==
    \E ch \in Chans :
        /\ fin[ch] = "closed"
        /\ done[ch] = 1
        /\ closed[ch] = 1
        /\ ch \notin DOMAIN listeners
        /\ ENABLED RemoveEventsListener(ch, TRUE)

\* sub occurs in str.
Contains(str, sub) ==
    \E i \in 1..(Len(str) - Len(sub) + 1) : SubSeq(str, i, i + Len(sub) - 1) = sub

\* C9: with a transport that is neither callback nor SSE, every
\* AddEventsListener call returns an error that names the transport identifier,
\* nothing is set up and the registry stays empty.
C9_UnsupportedTransport ==
    eventsTransport \in OtherTransports =>
        /\ listeners = <<>>
        /\ nextChan = 1
        /\ calls = NoCalls
        /\ ~eventsHTTP /\ ~serving /\ ~subscribedToSSE /\ ssePc = "off"
        /\ remote = {}
        /\ nAdd > 0 => /\ ret.op = "AddEventsListener"
                       /\ ret.err # "nil"
                       /\ Contains(ret.err, "not supported")
                       /\ Contains(ret.err, ToString(eventsTransport))

\* AddEventsListener was called twice with an unsupported transport.
C9_Witness ==
    /\ eventsTransport \in OtherTransports
    /\ nAdd = 2
    /\ ret.err # "nil"

\* C10: when the DELETE issued for the last subscriber of the callback
\* transport fails, the subscriber is removed all the same, its done signal is
\* closed and the goroutine that closes its channel is started.
C10_DetachNotRolledBack ==
    [][\A ch \in Chans :
          (/\ eventsTransport = EventsTransportCallback
           /\ DOMAIN listeners = {ch}
           /\ RemoveEventsListener(ch, FALSE))
              => /\ listeners' = <<>>
                 /\ done'[ch] = 1
                 /\ fin'[ch] = "wait"
                 /\ calls'.delete = calls.delete + 1
                 /\ remote' = remote]_vars

\* The DELETE for the last subscriber failed (the URL is still registered), and
\* the subscriber's channel has been closed.
C10_Witness ==
    /\ eventsTransport = EventsTransportCallback
    /\ listeners = <<>>
    /\ SubscriptionURL \in remote
    /\ calls.delete = 1
    /\ \E ch \in Chans : fin[ch] = "closed" /\ done[ch] = 1

\* C11: under the SSE transport, once the first AddEventsListener has started
\* the supervision goroutine, no step stops it, resets r.subscribedToSSE, starts
\* a second goroutine or issues a DELETE, whatever subscribers are attached or
\* detached afterwards.
C11_SSENeverTornDown ==
    /\ [](eventsTransport = EventsTransportSSE =>
            /\ calls.delete = 0
            /\ calls.sseLoops <= 1
            /\ subscribedToSSE <=> calls.sseLoops = 1
            /\ subscribedToSSE <=> ssePc # "off"
            /\ nAdd > 0 => subscribedToSSE)
    /\ [][subscribedToSSE =>
            /\ subscribedToSSE'
            /\ ssePc' # "off"
            /\ calls'.sseLoops = calls.sseLoops
            /\ calls'.delete = calls.delete]_vars
    /\ [][\A filter \in Filters, env \in Envs :
            (subscribedToSSE /\ AddEventsListener(filter, env))
                => /\ ssePc' = ssePc
                   /\ ret'.err = "nil"
                   /\ nextChan \in DOMAIN listeners']_vars

\* Under the SSE transport the only subscriber was detached and its channel
\* closed, leaving the registry empty, while the supervision goroutine went on
\* to stream; a second AddEventsListener then attached a subscriber to the
\* same goroutine.
C11_Witness ==
    /\ eventsTransport = EventsTransportSSE
    /\ nAdd = 2
    /\ DOMAIN listeners = {2}
    /\ fin[1] = "closed"
    /\ ssePc = "listen"
    /\ calls.sseLoops = 1
    /\ calls.delete = 0

\* C12: handleEvent, once it holds the read lock, returns and releases the lock
\* without any consumer having to receive: its return leaves the deliveries it
\* started in flight, and while deliveries stay blocked the SSE loop can still
\* read and hand over the next item of the stream.
C12_DispatchNeverWaits ==
    /\ \A h \in Handlers :
          (handlers[h].pc = "dispatch") ~> (handlers[h].pc # "dispatch" \/ ~Alive)
    /\ [][\A h \in Handlers :
            (handlers[h].pc = "dispatch" /\ handlers'[h].pc = "returned")
                => /\ readers' = readers - 1
                   /\ UNCHANGED <<inflight, received, completion>>]_vars
    /\ [](\A h \in Handlers :
            (Alive /\ ssePc = "listen" /\ ~SSEHandling /\ NextHandler(h))
                => ENABLED listenToSSEEvent(h,
                       [empty |-> FALSE, envelope |-> TRUE,
                        tag |-> "status_update_event", fits |-> TRUE]))

\* The first subscriber has received nothing and the delivery of the first
\* event to it is still blocked; both events were dispatched and their handlers
\* returned, and the second subscriber has received.
C12_Witness ==
    /\ DOMAIN listeners = {1, 2}
    /\ nEvents = 2
    /\ handlers[1].pc = "done"
    /\ handlers[2].pc = "done"
    /\ readers = 0
    /\ received[1] = {}
    /\ Deliveries(1) = 2
    /\ received[2] # {}

\* C13, as claimed: payloads are dispatched in the order the transport hands
\* them over, for either transport: a handler never starts a delivery for a
\* listener that the handler of an earlier payload has yet to visit.
C13_DispatchInArrivalOrder ==
    [][\A h1, h2 \in Handlers, ch \in Chans :
          (h1 < h2 /\ DispatchStep(h2, ch))
              => ~(handlers[h1].pc = "dispatch" /\ ch \in handlers[h1].todo)]_vars

\* C13, amended: on the SSE stream a payload is taken only after handleEvent
\* has returned for every payload before it, so the deliveries of an earlier
\* payload are all started before any delivery of a later one.
C13_SSEDispatchInOrder ==
    /\ [](eventsTransport = EventsTransportSSE =>
            \A h1, h2 \in Handlers :
                (h1 < h2 /\ handlers[h2].pc # "idle") => handlers[h1].pc = "done")
    /\ [][eventsTransport = EventsTransportSSE =>
            \A h1, h2 \in Handlers, ch \in Chans :
                (h1 < h2 /\ DispatchStep(h2, ch)) => handlers[h1].pc = "done"]_vars

\* On the SSE stream the first payload was dispatched and a delivery of it is
\* in flight, and the second payload is being dispatched.
C13_Witness ==
    /\ eventsTransport = EventsTransportSSE
    /\ handlers[1].pc = "done"
    /\ handlers[2].pc = "dispatch"
    /\ handlers[2].todo = {}
    /\ \E ch \in Chans : Deliveries(ch) = 2

\* C14: every connectToSSE call that returns an error puts the SSE goroutine
\* into the five-second wait, and only the end of that wait lets it connect
\* again, so the failed attempts are as many as the waits ended plus the wait
\* under way; the goroutine has no stopped state and a wait always runs out into
\* another attempt; an attempt that succeeds goes straight to streaming.
C14_BackoffAfterEveryFailure ==
    /\ [](/\ ssePc \in {"off", "connect", "backoff", "listen"}
          /\ sseRetries.failed =
                sseRetries.waited + (IF ssePc = "backoff" THEN 1 ELSE 0)
          /\ (Alive /\ ssePc = "backoff" /\ sseRetries.waited < MaxBackoffs)
                => ENABLED sseBackoffOver)
    /\ [][/\ sseRetries'.failed # sseRetries.failed
             => /\ sseRetries'.failed = sseRetries.failed + 1
                /\ ssePc = "connect" /\ ssePc' = "backoff"
          /\ (ssePc = "backoff" /\ ssePc' # "backoff")
             => /\ ssePc' = "connect"
                /\ sseRetries'.waited = sseRetries.waited + 1
          /\ (ssePc # "listen" /\ ssePc' = "listen")
             => ssePc = "connect" /\ sseRetries' = sseRetries]_vars

\* Two attempts failed, each was followed by a wait, and the third attempt
\* succeeded: the goroutine is streaming.
C14_Witness ==
    /\ sseRetries = [failed |-> 2, waited |-> 2]
    /\ ssePc = "listen"
    /\ hostsDown = {}
    /\ nEvents = 0

\* Every answer buildAPIRequest can give, whatever the members' health.
Requests == UNION {buildAPIRequest(down) : down \in SUBSET Members}

\* C15: a failed handshake with a member marks that member, and no other, down
\* and leaves the SSE goroutine connecting, with no wait counted; an attempt is
\* only ever made against a member that is not marked down, so not against the
\* one that just failed while it stays marked; no other step marks a member
\* down; a request that cannot be built for a reason other than the structural
\* one ends connectToSSE with an error, which sends the goroutine to the wait.
C15_HandshakeFailureRotates ==
    /\ [][\A req \in Requests, subscribeOk \in BOOLEAN :
            connectToSSE(req, subscribeOk) =>
                CASE req.err = "nil" /\ ~subscribeOk ->
                        /\ req.member \notin hostsDown
                        /\ hostsDown' = hostsDown \cup {req.member}
                        /\ ssePc' = "connect"
                        /\ sseRetries' = sseRetries
                        /\ Alive'
                  [] req.err = "nil" /\ subscribeOk ->
                        /\ req.member \notin hostsDown
                        /\ hostsDown' = hostsDown
                        /\ ssePc' = "listen"
                  [] req.err = "error" ->
                        /\ hostsDown' = hostsDown
                        /\ ssePc' = "backoff"
                        /\ sseRetries'.failed = sseRetries.failed + 1
                        /\ Alive'
                  [] OTHER -> hostsDown' = hostsDown /\ ~Alive']_vars
    /\ [][~(hostsDown' \subseteq hostsDown) =>
            \E m \in Members \ hostsDown :
                /\ connectToSSE([err |-> "nil", member |-> m], FALSE)
                /\ hostsDown' = hostsDown \cup {m}]_vars

\* The handshake with member 1 has failed: it is marked down, nothing was
\* waited for, and the goroutine can connect to member 2 at once.
C15_Witness ==
    /\ hostsDown = {1}
    /\ ssePc = "connect"
    /\ sseRetries = [failed |-> 0, waited |-> 0]
    /\ nEvents = 0
    /\ ENABLED connectToSSE([err |-> "nil", member |-> 2], TRUE)
    /\ ~ENABLED connectToSSE([err |-> "nil", member |-> 1], TRUE)

\* C16: while the SSE goroutine streams, an item that handleEvent fails on
\* leaves it streaming, with the stream open, and the item after it can be
\* handled; the one step that ends streaming is the stream's error, which closes
\* the stream and starts a new connectToSSE call with no wait.
C16_OnlyStreamErrorEndsStreaming ==
    /\ [][\A h \in Handlers, data \in Payloads :
            (listenToSSEEvent(h, data) /\ decodeEvent(data).err # "nil")
                => /\ ssePc' = "listen"
                   /\ openStreams' = openStreams
                   /\ handlers'[h].pc = "returned"
                   /\ handlers'[h].err = decodeEvent(data).err
                   /\ Alive']_vars
    /\ [][(ssePc = "listen" /\ ssePc' # "listen")
            => /\ listenToSSEError
               /\ ssePc' = "connect"
               /\ openStreams' = 0
               /\ sseRetries' = sseRetries
               /\ sseCall' = NewCall(hostsDown)]_vars
    /\ [](/\ openStreams = (IF ssePc = "listen" THEN 1 ELSE 0)
          /\ \A h \in Handlers :
                (eventsTransport = EventsTransportSSE /\ Alive
                    /\ handlers[h].pc = "returned")
                    => ssePc = "listen" /\ ENABLED handleEventCallerDone(h))

\* On one stream, the first item could not be decoded and the second was
\* dispatched and received; then the stream's error ended the streaming.
C16_Witness ==
    /\ eventsTransport = EventsTransportSSE
    /\ handlers[1].pc = "done"
    /\ handlers[2].pc = "done"
    /\ \E ch \in Chans : Cardinality(received[ch]) = 1 /\ Deliveries(ch) = 0
    /\ \A ch \in Chans : Cardinality(received[ch]) + Deliveries(ch) <= 1
    /\ ssePc = "connect"
    /\ openStreams = 0
    /\ sseRetries.failed = 0
    /\ hostsDown = {}

EmptyBody == [empty |-> TRUE, envelope |-> FALSE, tag |-> "", fits |-> FALSE]

\* C17, as claimed: a request with an empty body is not handed to the decoder,
\* so its handler reports no decoding error; nothing panics and no delivery is
\* started.
C17_EmptyBodyNotDecoded ==
    [][\A h \in Handlers :
          handleCallbackEvent(h, EmptyBody)
              => /\ handlers'[h].err = "nil"
                 /\ UNCHANGED <<inflight, completion, received, panicMsg>>]_vars

\* C17, amended: a request with an empty body is handed to handleEvent like any
\* other; decoding its envelope fails, handleEvent returns that error without
\* taking the lock or starting a delivery, nothing panics, and the handler can
\* go on to return, writing no status of its own.
C17_EmptyBodyFailsDecoding ==
    /\ [][\A h \in Handlers :
            handleCallbackEvent(h, EmptyBody)
                => /\ handlers'[h] =
                        [pc |-> "returned", ID |-> 0, todo |-> {},
                         err |-> "failed to decode the event type, content: , error: EOF"]
                   /\ UNCHANGED <<readers, inflight, completion, received,
                                  listeners, panicMsg>>]_vars
    /\ [](\A h \in Handlers :
            (Alive /\ handlers[h].pc = "returned")
                => ENABLED handleEventCallerDone(h))

\* While a subscriber is attached under the callback transport, a request with
\* an empty body has been handled: decoding failed and nothing was delivered.
C17_Witness ==
    /\ eventsTransport = EventsTransportCallback
    /\ DOMAIN listeners # {}
    /\ handlers[1].pc = "returned"
    /\ handlers[1].err = "failed to decode the event type, content: , error: EOF"
    /\ readers = 0
    /\ \A ch \in Chans : Deliveries(ch) = 0 /\ received[ch] = {}

\* C18: once r.eventsHTTP is set it stays set, and an AddEventsListener call
\* made from then on resolves no address, installs no handler and binds no
\* listener; it queries the remote registry once and posts the callback URL
\* exactly when the query succeeds and does not list the URL.
C18_BoundOnceRegisteredEachTime ==
    /\ [](calls.handleFunc <= 1 /\ calls.listen <= 1
          /\ eventsHTTP <=> calls.handleFunc = 1)
    /\ [][eventsHTTP => eventsHTTP']_vars
    /\ [][\A filter \in Filters, env \in Envs :
            (eventsHTTP /\ AddEventsListener(filter, env))
                => /\ calls'.resolve = calls.resolve
                   /\ calls'.handleFunc = calls.handleFunc
                   /\ calls'.listen = calls.listen
                   /\ ipAddress' = ipAddress
                   /\ serving' = serving
                   /\ calls'.get = calls.get + 1
                   /\ calls'.post = calls.post +
                        (IF env.get /\ SubscriptionURL \notin remote
                         THEN 1 ELSE 0)
                   /\ SubscriptionURL \in remote => remote' = remote]_vars

\* The first AddEventsListener bound the listener but its POST failed; the
\* second did not bind again, queried the registry again and registered the URL.
C18_Witness ==
    /\ eventsTransport = EventsTransportCallback
    /\ nAdd = 2
    /\ serving
    /\ calls.resolve = 1 /\ calls.handleFunc = 1 /\ calls.listen = 1
    /\ calls.get = 2 /\ calls.post = 2
    /\ DOMAIN listeners = {1}
    /\ SubscriptionURL \in remote

\* C19: while no member marked down is found to be up again, every call of
\* connectToSSE ends, with a stream, an error or the panic of line 201; in the
\* call each failed handshake takes one member out of those that were active
\* when it began, so the failed handshakes never exceed that number, and once no
\* member is active no further handshake is tried.
C19_ConnectTerminates ==
    /\ (ssePc = "connect") ~> (ssePc # "connect" \/ ~Alive)
    /\ [](ssePc = "connect" =>
            /\ sseCall.handshakes <= sseCall.active
            /\ sseCall.handshakes + Cardinality(Members \ hostsDown)
                  = sseCall.active
            /\ hostsDown = Members =>
                  \A req \in buildAPIRequest(hostsDown) : req.err # "nil")
    /\ [][sseCall'.handshakes > sseCall.handshakes
            => /\ sseCall'.handshakes = sseCall.handshakes + 1
               /\ Cardinality(hostsDown') = Cardinality(hostsDown) + 1
               /\ hostsDown \subseteq hostsDown']_vars

\* A call that began with both members active has failed the handshake with
\* each; both are marked down and all that is left to the call is to return an
\* error.
C19_Witness ==
    /\ ssePc = "connect"
    /\ sseCall = [handshakes |-> NumMembers, active |-> NumMembers]
    /\ hostsDown = Members
    /\ Alive
    /\ ENABLED connectToSSE([err |-> "error", member |-> 0], FALSE)
    /\ \A m \in Members, ok \in BOOLEAN :
          ~ENABLED connectToSSE([err |-> "nil", member |-> m], ok)

\* C20: under the callback transport, in runs where the bind and every call to
\* the subscription API succeed, the callback URL is in Marathon's registry
\* exactly while the listener registry is not empty, and nothing else is in it.
C20_RegisteredIffListeners ==
    eventsTransport = EventsTransportCallback =>
        /\ SubscriptionURL \in remote <=> DOMAIN listeners # {}
        /\ remote \subseteq {SubscriptionURL}
        /\ calls.post = calls.delete + (IF DOMAIN listeners # {} THEN 1 ELSE 0)

\* The only subscriber was detached, which unregistered the URL, and the
\* AddEventsListener after that registered it again.
C20_Witness ==
    /\ eventsTransport = EventsTransportCallback
    /\ nAdd = 2
    /\ DOMAIN listeners = {2}
    /\ done[1] = 1
    /\ calls.get = 2 /\ calls.post = 2 /\ calls.delete = 1
    /\ remote = {SubscriptionURL}

====
